---- MODULE Spec2Model ----
(***************************************************************************)
(* Escrow bot: the persistent store (utils/database.py), the security      *)
(* guard (utils/security.py) and the deal model.                           *)
(*                                                                         *)
(* Scheduling: every handler is an asyncio coroutine on one event loop.    *)
(* A coroutine runs without interruption from one suspending await to the  *)
(* next, so each action below is one such uninterrupted segment.  The      *)
(* awaits that suspend are the aiosqlite calls and the chat replies;       *)
(* "await log_security_event(...)" does not suspend, because that          *)
(* coroutine contains no await of its own.                                 *)
(***************************************************************************)
EXTENDS Integers, Sequences, FiniteSets, TLC

\* ------------------------------------------------------------------ bounds
\* The clock (whole seconds) stops at MaxTime in the guard specifications,
\* and at MaxStoreTime in the store specification.
MaxTime == 3
MaxStoreTime == 1
\* The configured rate window in seconds (config.RATE_LIMIT_SECONDS, which
\* the wrapper passes to check_rate_limit as limit_seconds).
RATE_LIMIT_SECONDS == 2
\* The monitor's counters are unbounded; the model stops counting here.
MaxFailed == 6
MaxSuspicious == 2
\* security.log grows without bound; no further event is logged once it
\* holds MaxLog lines.
MaxLog == 7
\* In the specification where log writes may fail, every write fails once
\* the log holds MaxLogFail lines.
MaxLogFail == 2
\* The payments table grows without bound; no further payment is recorded
\* once it holds MaxPayments rows.
MaxPayments == 2

\* ---------------------------------------------------------------- domains
Users == {101, 102}
DealIds == {"D1", "D2"}
Descriptions == {"Sell a vintage watch"}
Amounts == {100, 1000}
TermsTexts == {"Item shipped within 3 days of payment confirmation"}
\* Two handler tasks run concurrently.
Tasks == {"t1", "t2"}
\* The handler task that calls check_rate_limit among the store operations.
LedgerTask == "t1"
\* The users that block_user / unblock_user are called for next to the wrapper.
GuardedUsers == {101}
FailOpenUsers == {101}
Usernames == {"alice", "bob"}
FirstNames == {"Alice"}
PaymentMethods == {"upi"}
ReferenceIds == {"REF1"}
PaymentStatuses == {"pending"}
AttemptTypes == {"payment"}
Activities == {"flood"}

\* DealStatus enumeration values.
CREATED == "created"
FUNDED == "funded"
COMPLETED == "completed"
DISPUTED == "disputed"
CANCELLED == "cancelled"
DealStatus == {CREATED, FUNDED, COMPLETED, DISPUTED, CANCELLED}

\* Argument values of the store operations in the ledger specification.
LedgerUsernames == {"alice"}
LedgerCreators == {101}
LedgerPayers == {102}
LedgerStatuses == {FUNDED, COMPLETED}
LedgerPaymentAmounts == {100}

VARIABLES
    clock,          \* datetime.now() / CURRENT_TIMESTAMP, in whole seconds
    \* ---- persistent store (database.py)
    deals,          \* the deals table: rows in insertion (autoincrement) order
    users,          \* the users table: a set of rows
    payments,       \* the payments table: rows in insertion (autoincrement) order
    rate_limits,    \* the rate_limits table: a set of rows
    op,             \* the deal operation last performed, with its result
    \* ---- security guard (security.py)
    cache,          \* _rate_limit_cache: dict user_id -> datetime
    blocked,        \* _blocked_users
    failed_attempts,     \* SecurityMonitor.failed_attempts: dict user_id -> int
    suspicious_activity, \* SecurityMonitor.suspicious_activity: dict user_id -> int
    audit,          \* security.log: the lines appended so far
    \* ---- the handler tasks; a task's locals are cleared when it finishes
    pc,             \* where the task is suspended
    tmode,          \* "wrapper": inside rate_limit.wrapper; "direct": a bare check_rate_limit call
    tuser,          \* user_id of the task's action
    wnow,           \* wrapper's local "now"
    dbnow,          \* check_rate_limit's local "now"
    result,         \* what check_rate_limit returned to a direct caller
    \* ---- observers (no code reads them)
    prior,          \* result of the SELECT, had it run when the direct call started
    changedCache,   \* the task's action in progress changed cache[user]
    lastAllowed,    \* per user: timestamp of the last direct check_rate_limit that returned True
    turnedAway,     \* users whose action the wrapper dropped because they were blocked
    handledLog,     \* how many wrapped handlers ran, per user and wrapper timestamp
    failedCalls     \* per user: how many log_failed_attempt calls were made

storeVars == <<deals, users, payments, op>>
guardVars == <<cache, blocked>>
monitorVars == <<failed_attempts, suspicious_activity, audit, failedCalls>>
taskVars == <<pc, tmode, tuser, wnow, dbnow, result>>
obsVars == <<prior, changedCache, lastAllowed, turnedAway, handledLog>>

vars == <<clock, deals, users, payments, rate_limits, op, cache, blocked, failed_attempts,
          suspicious_activity, audit, pc, tmode, tuser, wnow, dbnow, result,
          prior, changedCache, lastAllowed, turnedAway, handledLog, failedCalls>>

NoOp ==
    [name |-> "init", deal_id |-> "", creator_id |-> 0, description |-> "",
     amount |-> 0, terms |-> "", status |-> "", ret |-> TRUE]

\* ------------------------------------------------------------------- store

\* Row inserted by create_deal: status and both timestamps take the column
\* defaults of the deals table.
NewDealRow(deal_id, creator_id, description, amount, terms) ==
    [deal_id |-> deal_id, creator_id |-> creator_id,
     description |-> description, amount |-> amount, terms |-> terms,
     status |-> CREATED, created_at |-> clock, updated_at |-> clock]

\* deal_id TEXT UNIQUE NOT NULL: the INSERT raises when the id is taken.
DealIdTaken(deal_id) ==
    \E i \in 1..Len(deals) : deals[i].deal_id = deal_id

\* InsertDeal without the UNIQUE constraint on deal_id.
InsertDeal_NoUnique(deal_id, creator_id, description, amount, terms) ==
    Append(deals, NewDealRow(deal_id, creator_id, description, amount, terms))

\* InsertDeal with "INSERT OR REPLACE" for "INSERT".
InsertDeal_Replace(deal_id, creator_id, description, amount, terms) ==
    Append(SelectSeq(deals, LAMBDA r : r.deal_id # deal_id),
           NewDealRow(deal_id, creator_id, description, amount, terms))

\* The deals table after create_deal's INSERT (unchanged when it raises).
InsertDeal(deal_id, creator_id, description, amount, terms) ==
    IF DealIdTaken(deal_id)
    THEN deals
    ELSE Append(deals, NewDealRow(deal_id, creator_id, description, amount, terms))

create_deal(deal_id, creator_id, description, amount, terms) ==
    /\ deals' = InsertDeal(deal_id, creator_id, description, amount, terms)
    /\ op' = [name |-> "create_deal", deal_id |-> deal_id,
              creator_id |-> creator_id, description |-> description,
              amount |-> amount, terms |-> terms, status |-> "",
              ret |-> ~DealIdTaken(deal_id)]
    /\ UNCHANGED <<users, payments>>
    /\ UNCHANGED <<clock, rate_limits, guardVars, monitorVars, taskVars, obsVars>>

\* UpdateStatusRows without "updated_at = CURRENT_TIMESTAMP".
UpdateStatusRows_StaleTime(deal_id, status) ==
    [i \in 1..Len(deals) |->
        IF deals[i].deal_id = deal_id
        THEN [deals[i] EXCEPT !.status = status]
        ELSE deals[i]]

\* UpdateStatusRows as an upsert: a missing deal_id gets a row of its own.
UpdateStatusRows_Upsert(deal_id, status) ==
    IF DealIdTaken(deal_id)
    THEN [i \in 1..Len(deals) |->
            IF deals[i].deal_id = deal_id
            THEN [deals[i] EXCEPT !.status = status, !.updated_at = clock]
            ELSE deals[i]]
    ELSE Append(deals, [NewDealRow(deal_id, 0, "", 0, "") EXCEPT !.status = status])

\* UPDATE deals SET status = ?, updated_at = CURRENT_TIMESTAMP WHERE deal_id = ?
UpdateStatusRows(deal_id, status) ==
    [i \in 1..Len(deals) |->
        IF deals[i].deal_id = deal_id
        THEN [deals[i] EXCEPT !.status = status, !.updated_at = clock]
        ELSE deals[i]]

update_deal_status(deal_id, status) ==
    /\ deals' = UpdateStatusRows(deal_id, status)
    /\ op' = [name |-> "update_deal_status", deal_id |-> deal_id,
              creator_id |-> 0, description |-> "", amount |-> 0,
              terms |-> "", status |-> status, ret |-> TRUE]
    /\ UNCHANGED <<users, payments>>
    /\ UNCHANGED <<clock, rate_limits, guardVars, monitorVars, taskVars, obsVars>>

StoreTick ==
    /\ clock < MaxStoreTime
    /\ clock' = clock + 1
    /\ UNCHANGED <<storeVars, rate_limits, guardVars, monitorVars, taskVars, obsVars>>

\* fetchone() found no row.
NoRow == <<>>

\* Python's None as a returned value.
None == [py |-> "None"]

\* "dict(row) if row else None"
DictOrNone(row) == IF row = NoRow THEN None ELSE row

\* ------------------------------------------------------------ users table

\* Row written by create_user: created_at and is_active take the column
\* defaults of the users table.
NewUserRow(user_id, username, first_name) ==
    [user_id |-> user_id, username |-> username, first_name |-> first_name,
     created_at |-> clock, is_active |-> TRUE]

UserRows(user_id) == {r \in users : r.user_id = user_id}

\* InsertOrReplaceUser with a plain INSERT and no primary key.
InsertOrReplaceUser_Insert(user_id, username, first_name) ==
    users \cup {NewUserRow(user_id, username, first_name)}

\* INSERT OR REPLACE INTO users (user_id, username, first_name) VALUES (?, ?, ?):
\* user_id is the primary key, so the row of that user is replaced.
InsertOrReplaceUser(user_id, username, first_name) ==
    (users \ UserRows(user_id)) \cup {NewUserRow(user_id, username, first_name)}

create_user(user_id, username, first_name) ==
    /\ users' = InsertOrReplaceUser(user_id, username, first_name)
    /\ op' = [name |-> "create_user", user_id |-> user_id, username |-> username,
              first_name |-> first_name, replaced |-> UserRows(user_id) # {},
              ret |-> TRUE]
    /\ UNCHANGED <<deals, payments>>
    /\ UNCHANGED <<clock, rate_limits, guardVars, monitorVars, taskVars, obsVars>>

\* SELECT * FROM users WHERE user_id = ? ; fetchone()
SelectUser(user_id) ==
    IF UserRows(user_id) = {} THEN NoRow ELSE CHOOSE r \in UserRows(user_id) : TRUE

get_user(user_id) ==
    /\ op' = [name |-> "get_user", user_id |-> user_id, ret |-> DictOrNone(SelectUser(user_id))]
    /\ UNCHANGED <<deals, users, payments>>
    /\ UNCHANGED <<clock, rate_limits, guardVars, monitorVars, taskVars, obsVars>>

\* ------------------------------------------------------------ deals, reads

\* SELECT * FROM deals WHERE deal_id = ? ; fetchone()
SelectDeal(deal_id) ==
    IF DealIdTaken(deal_id)
    THEN deals[CHOOSE i \in 1..Len(deals) : deals[i].deal_id = deal_id]
    ELSE NoRow

get_deal(deal_id) ==
    /\ op' = [name |-> "get_deal", deal_id |-> deal_id, ret |-> DictOrNone(SelectDeal(deal_id))]
    /\ UNCHANGED <<deals, users, payments>>
    /\ UNCHANGED <<clock, rate_limits, guardVars, monitorVars, taskVars, obsVars>>

\* The orders in which "ORDER BY created_at DESC" may return the rows with
\* the indices I: newest first, rows of equal created_at in any order.
OrderedByCreatedDesc(I) ==
    {q \in [1..Cardinality(I) -> I] :
        /\ \A a, b \in 1..Cardinality(I) : a # b => q[a] # q[b]
        /\ \A a \in 1..(Cardinality(I) - 1) :
              deals[q[a]].created_at >= deals[q[a + 1]].created_at}

\* fetchall() and "[dict(row) for row in rows]"
FetchAll(q) == [k \in 1..Len(q) |-> deals[q[k]]]

\* SELECT * FROM deals WHERE creator_id = ? ORDER BY created_at DESC
get_user_deals(user_id) ==
    /\ \E q \in OrderedByCreatedDesc({i \in 1..Len(deals) : deals[i].creator_id = user_id}) :
          op' = [name |-> "get_user_deals", user_id |-> user_id, ret |-> FetchAll(q)]
    /\ UNCHANGED <<deals, users, payments>>
    /\ UNCHANGED <<clock, rate_limits, guardVars, monitorVars, taskVars, obsVars>>

\* get_all_deals(status): "if status:" filters by status, else (status None,
\* written "" here) all deals are returned.
get_all_deals(status) ==
    /\ \E q \in OrderedByCreatedDesc({i \in 1..Len(deals) :
                                        status # "" => deals[i].status = status}) :
          op' = [name |-> "get_all_deals", status |-> status, ret |-> FetchAll(q)]
    /\ UNCHANGED <<deals, users, payments>>
    /\ UNCHANGED <<clock, rate_limits, guardVars, monitorVars, taskVars, obsVars>>

\* ---------------------------------------------------------- payments table

\* Row inserted by create_payment_record; created_at takes its default.
NewPaymentRow(deal_id, payer_id, amount, payment_method, reference_id, status) ==
    [deal_id |-> deal_id, payer_id |-> payer_id, amount |-> amount,
     payment_method |-> payment_method, reference_id |-> reference_id,
     status |-> status, created_at |-> clock]

\* Whether a payment with the same six values is already recorded.
SamePaymentRecorded(row) ==
    \E i \in 1..Len(payments) :
        [payments[i] EXCEPT !.created_at = row.created_at] = row

\* InsertPayment refusing a record that is already there.
InsertPayment_Dedup(deal_id, payer_id, amount, payment_method, reference_id, status) ==
    IF SamePaymentRecorded(NewPaymentRow(deal_id, payer_id, amount, payment_method,
                                         reference_id, status))
    THEN payments
    ELSE Append(payments, NewPaymentRow(deal_id, payer_id, amount, payment_method,
                                        reference_id, status))

\* INSERT INTO payments (...) VALUES (?, ?, ?, ?, ?, ?): the payments table
\* has no uniqueness constraint besides its autoincrement id, and sqlite does
\* not enforce the foreign keys unless asked to.
InsertPayment(deal_id, payer_id, amount, payment_method, reference_id, status) ==
    Append(payments, NewPaymentRow(deal_id, payer_id, amount, payment_method,
                                   reference_id, status))

create_payment_record(deal_id, payer_id, amount, payment_method, reference_id, status) ==
    /\ payments' = InsertPayment(deal_id, payer_id, amount, payment_method,
                                 reference_id, status)
    /\ op' = [name |-> "create_payment_record", deal_id |-> deal_id,
              payer_id |-> payer_id, amount |-> amount, ret |-> TRUE]
    /\ UNCHANGED <<deals, users>>
    /\ UNCHANGED <<clock, rate_limits, guardVars, monitorVars, taskVars, obsVars>>

\* ------------------------------------------------------------ get_deal_stats

\* SELECT COUNT(*) FROM deals
SelectCountAll == Len(deals)

\* SELECT COUNT(*) FROM deals WHERE status IN (...)
SelectCount(statuses) ==
    Cardinality({i \in 1..Len(deals) : deals[i].status \in statuses})

RECURSIVE SumAmountUpTo(_, _)
SumAmountUpTo(n, statuses) ==
    IF n = 0
    THEN 0
    ELSE SumAmountUpTo(n - 1, statuses)
            + (IF deals[n].status \in statuses THEN deals[n].amount ELSE 0)

\* StatsTotalValue summing over the funded deals only.
StatsTotalValue_FundedOnly ==
    IF SelectCount({"funded"}) = 0
    THEN 0
    ELSE SumAmountUpTo(Len(deals), {"funded"})

\* SELECT SUM(amount) FROM deals WHERE status IN ('created', 'funded'), then
\* "result[0] if result and result[0] else 0": SUM is NULL over no rows.
StatsTotalValue ==
    IF SelectCount({"created", "funded"}) = 0
    THEN 0
    ELSE SumAmountUpTo(Len(deals), {"created", "funded"})

\* The five queries, run with no mutation of the deals table in between.
DealStats ==
    [total_deals |-> SelectCountAll,
     active_deals |-> SelectCount({"created", "funded"}),
     completed_deals |-> SelectCount({"completed"}),
     disputed_deals |-> SelectCount({"disputed"}),
     total_value |-> StatsTotalValue]

get_deal_stats ==
    /\ op' = [name |-> "get_deal_stats", ret |-> DealStats]
    /\ UNCHANGED <<deals, users, payments>>
    /\ UNCHANGED <<clock, rate_limits, guardVars, monitorVars, taskVars, obsVars>>

\* -------------------------------------------------- the store raising an error

\* What is persisted when an operation raised between its statement and its
\* commit: "async with aiosqlite.connect(...)" closes the connection, and the
\* uncommitted statement is rolled back.
RolledBack_Kept(committed, pending) == pending

RolledBack(committed, pending) == committed

\* "except Exception: print(...); return False" of the four writing operations.
create_user_raises(user_id, username, first_name) ==
    /\ users' = RolledBack(users, InsertOrReplaceUser(user_id, username, first_name))
    /\ op' = [name |-> "create_user", user_id |-> user_id, username |-> username,
              first_name |-> first_name, replaced |-> FALSE, ret |-> FALSE]
    /\ UNCHANGED <<deals, payments>>
    /\ UNCHANGED <<clock, rate_limits, guardVars, monitorVars, taskVars, obsVars>>

create_deal_raises(deal_id, creator_id, description, amount, terms) ==
    /\ deals' = RolledBack(deals, InsertDeal(deal_id, creator_id, description,
                                             amount, terms))
    /\ op' = [name |-> "create_deal", deal_id |-> deal_id,
              creator_id |-> creator_id, description |-> description,
              amount |-> amount, terms |-> terms, status |-> "", ret |-> FALSE]
    /\ UNCHANGED <<users, payments>>
    /\ UNCHANGED <<clock, rate_limits, guardVars, monitorVars, taskVars, obsVars>>

update_deal_status_raises(deal_id, status) ==
    /\ deals' = RolledBack(deals, UpdateStatusRows(deal_id, status))
    /\ op' = [name |-> "update_deal_status", deal_id |-> deal_id,
              creator_id |-> 0, description |-> "", amount |-> 0,
              terms |-> "", status |-> status, ret |-> FALSE]
    /\ UNCHANGED <<users, payments>>
    /\ UNCHANGED <<clock, rate_limits, guardVars, monitorVars, taskVars, obsVars>>

create_payment_record_raises(deal_id, payer_id, amount, payment_method, reference_id, status) ==
    /\ payments' = RolledBack(payments, InsertPayment(deal_id, payer_id, amount,
                                  payment_method, reference_id, status))
    /\ op' = [name |-> "create_payment_record", deal_id |-> deal_id,
              payer_id |-> payer_id, amount |-> amount, ret |-> FALSE]
    /\ UNCHANGED <<deals, users>>
    /\ UNCHANGED <<clock, rate_limits, guardVars, monitorVars, taskVars, obsVars>>

ReadOperations ==
    {"get_user", "get_deal", "get_user_deals", "get_all_deals", "get_deal_stats"}

\* The value a reading operation returns from its except clause.
ReadFailure(name) ==
    IF name \in {"get_user", "get_deal"}
    THEN None                     \* return None
    ELSE IF name \in {"get_user_deals", "get_all_deals"}
    THEN <<>>                     \* return []
    ELSE [x \in {} |-> 0]         \* get_deal_stats: return {}

\* A reading operation whose connect, execute or fetch raised.
read_raises(name) ==
    /\ op' = [name |-> name, ret |-> ReadFailure(name)]
    /\ UNCHANGED <<deals, users, payments>>
    /\ UNCHANGED <<clock, rate_limits, guardVars, monitorVars, taskVars, obsVars>>

\* ------------------------------------------------- rate_limits table access

\* datetime.isoformat() / datetime.fromisoformat(): the stored text and back.
isoformat(t) == <<"iso", t>>
fromisoformat(s) == s[2]

RateRows(u) == {r \in rate_limits : r.user_id = u}

\* SELECT last_action FROM rate_limits WHERE user_id = ? ; fetchone()
SelectLastAction(u) ==
    IF RateRows(u) = {}
    THEN NoRow
    ELSE <<(CHOOSE r \in RateRows(u) : TRUE).last_action>>

\* INSERT OR REPLACE INTO rate_limits (user_id, last_action) VALUES (?, ?):
\* user_id is the primary key, so the row of that user is replaced;
\* action_count takes its default.
InsertOrReplaceRate(u, t) ==
    (rate_limits \ RateRows(u))
        \cup {[user_id |-> u, last_action |-> isoformat(t), action_count |-> 1]}

\* RateLimited with "<=" for "<".
RateLimited_Inclusive(row, now, limit_seconds) ==
    /\ row # NoRow
    /\ now - fromisoformat(row[1]) <= limit_seconds

\* "if result: ... if time_diff < limit_seconds: return False"
RateLimited(row, now, limit_seconds) ==
    /\ row # NoRow
    /\ now - fromisoformat(row[1]) < limit_seconds

\* ------------------------------------------------------- observer helpers
Bump(log, u, t) ==
    [log EXCEPT ![<<u, t>>] = IF @ < 2 THEN @ + 1 ELSE @]

\* ---------------------------------------------------------- dict helpers
DictPut(d, k, v) ==
    [x \in DOMAIN d \cup {k} |-> IF x = k THEN v ELSE d[x]]

EmptyDict == [x \in {} |-> 0]

\* ------------------------------------------------------------ task frame
InCall(t) == pc[t] \in {"connect", "select", "insert", "commit"}

AllIdle == \A t \in Tasks : pc[t] = "idle"

\* The task's coroutine has returned: its frame is gone.
TaskEnds(t) ==
    /\ pc' = [pc EXCEPT ![t] = "idle"]
    /\ tmode' = [tmode EXCEPT ![t] = "none"]
    /\ tuser' = [tuser EXCEPT ![t] = 0]
    /\ wnow' = [wnow EXCEPT ![t] = 0]
    /\ dbnow' = [dbnow EXCEPT ![t] = 0]
    /\ result' = [result EXCEPT ![t] = FALSE]
    /\ prior' = [prior EXCEPT ![t] = NoRow]
    /\ changedCache' = [changedCache EXCEPT ![t] = FALSE]

\* ------------------------------------------- check_rate_limit, step by step

\* A handler calls check_rate_limit(u) itself: the call starts and suspends
\* in aiosqlite.connect.
Direct_Call(t, u) ==
    /\ pc[t] = "idle"
    /\ pc' = [pc EXCEPT ![t] = "connect"]
    /\ tmode' = [tmode EXCEPT ![t] = "direct"]
    /\ tuser' = [tuser EXCEPT ![t] = u]
    /\ prior' = [prior EXCEPT ![t] = SelectLastAction(u)]
    /\ UNCHANGED <<clock, storeVars, monitorVars, rate_limits, guardVars, wnow, dbnow,
                   result, changedCache, lastAllowed, turnedAway, handledLog>>

\* The same, when calls are made one after the other.
Seq_Call(t, u) ==
    /\ AllIdle
    /\ Direct_Call(t, u)

\* connect() resumes: now = datetime.now(), the SELECT is sent.
Db_Connect(t) ==
    /\ pc[t] = "connect"
    /\ dbnow' = [dbnow EXCEPT ![t] = clock]
    /\ pc' = [pc EXCEPT ![t] = "select"]
    /\ UNCHANGED <<clock, storeVars, monitorVars, rate_limits, guardVars, tmode, tuser,
                   wnow, result, obsVars>>

\* The SELECT runs and fetchone() returns: the call returns False (and the
\* wrapper then returns without running the handler), or sends the INSERT.
Db_Select(t) ==
    /\ pc[t] = "select"
    /\ IF RateLimited(SelectLastAction(tuser[t]), dbnow[t], RATE_LIMIT_SECONDS)
       THEN IF tmode[t] = "wrapper"
            THEN TaskEnds(t)
            ELSE /\ pc' = [pc EXCEPT ![t] = "returned"]
                 /\ result' = [result EXCEPT ![t] = FALSE]
                 /\ UNCHANGED <<tmode, tuser, wnow, dbnow, prior, changedCache>>
       ELSE /\ pc' = [pc EXCEPT ![t] = "insert"]
            /\ UNCHANGED <<tmode, tuser, wnow, dbnow, result, prior, changedCache>>
    /\ UNCHANGED <<clock, storeVars, monitorVars, rate_limits, guardVars, lastAllowed,
                   turnedAway, handledLog>>

\* The INSERT OR REPLACE and its commit take effect in the database.
Db_Insert(t) ==
    /\ pc[t] = "insert"
    /\ rate_limits' = InsertOrReplaceRate(tuser[t], dbnow[t])
    /\ pc' = [pc EXCEPT ![t] = "commit"]
    /\ UNCHANGED <<clock, storeVars, monitorVars, guardVars, tmode, tuser, wnow, dbnow,
                   result, obsVars>>

\* commit() resumes: check_rate_limit returns True; inside the wrapper the
\* handler is then executed.
Db_Return(t) ==
    /\ pc[t] = "commit"
    /\ IF tmode[t] = "wrapper"
       THEN /\ TaskEnds(t)
            /\ handledLog' = Bump(handledLog, tuser[t], wnow[t])
            /\ UNCHANGED lastAllowed
       ELSE /\ pc' = [pc EXCEPT ![t] = "returned"]
            /\ result' = [result EXCEPT ![t] = TRUE]
            /\ lastAllowed' = DictPut(lastAllowed, tuser[t], dbnow[t])
            /\ UNCHANGED <<tmode, tuser, wnow, dbnow, prior, changedCache,
                           handledLog>>
    /\ UNCHANGED <<clock, storeVars, monitorVars, rate_limits, guardVars, turnedAway>>

\* The direct caller has used the returned value and finishes.
Caller_Done(t) ==
    /\ pc[t] = "returned"
    /\ TaskEnds(t)
    /\ UNCHANGED <<clock, storeVars, monitorVars, rate_limits, guardVars, lastAllowed,
                   turnedAway, handledLog>>

\* ------------------------------------------ check_rate_limit raising an error

\* AllowOnError answering "rate limited" on an error.
AllowOnError_Deny == FALSE

\* "except Exception as e: ... return True  # Allow on error"
AllowOnError == TRUE

\* aiosqlite.connect, the SELECT, or the INSERT OR REPLACE with its commit
\* raises: the connection is closed, an uncommitted INSERT is rolled back,
\* and check_rate_limit returns what the except clause returns; inside the
\* wrapper the handler is executed when that is True.
Db_Raises(t) ==
    /\ pc[t] \in {"connect", "select", "insert"}
    /\ rate_limits' = IF pc[t] = "insert"
                      THEN RolledBack(rate_limits,
                                      InsertOrReplaceRate(tuser[t], dbnow[t]))
                      ELSE rate_limits
    /\ IF tmode[t] = "wrapper"
       THEN /\ TaskEnds(t)
            /\ handledLog' = IF AllowOnError
                             THEN Bump(handledLog, tuser[t], wnow[t])
                             ELSE handledLog
       ELSE /\ pc' = [pc EXCEPT ![t] = "returned"]
            /\ result' = [result EXCEPT ![t] = AllowOnError]
            /\ UNCHANGED <<tmode, tuser, wnow, dbnow, prior, changedCache,
                           handledLog>>
    /\ UNCHANGED <<clock, storeVars, monitorVars, guardVars, lastAllowed, turnedAway>>

\* The process is restarted while no action is in progress: the module-level
\* dicts and sets start empty again, the database and security.log remain.
Restart ==
    /\ AllIdle
    /\ cache' = EmptyDict
    /\ blocked' = {}
    /\ failed_attempts' = EmptyDict
    /\ suspicious_activity' = EmptyDict
    /\ UNCHANGED <<clock, storeVars, rate_limits, audit, failedCalls, taskVars,
                   obsVars>>

\* -------------------------------------------------- rate_limit.wrapper

\* IsBlockedAtEntry with the membership test left out.
IsBlockedAtEntry_Never(u) == FALSE

\* "if user_id in _blocked_users: return"
IsBlockedAtEntry(u) == u \in blocked

\* CacheLimited with the window one second shorter.
CacheLimited_Short(u, now) ==
    /\ u \in DOMAIN cache
    /\ now - cache[u] < RATE_LIMIT_SECONDS - 1

\* The quick in-memory check: the user has a cache entry younger than the window.
CacheLimited(u, now) ==
    /\ u \in DOMAIN cache
    /\ now - cache[u] < RATE_LIMIT_SECONDS

\* CacheAfterPass with the assignment left out.
CacheAfterPass_NotStored(u, now) == cache

\* _rate_limit_cache[user_id] = now
CacheAfterPass(u, now) == DictPut(cache, u, now)

\* The wrapper from its entry to its first suspension.
W_Enter(t, u) ==
    /\ pc[t] = "idle"
    /\ IF IsBlockedAtEntry(u)
       THEN /\ turnedAway' = turnedAway \cup {u}
            /\ UNCHANGED <<pc, tmode, tuser, wnow, cache, changedCache>>
       ELSE /\ tmode' = [tmode EXCEPT ![t] = "wrapper"]
            /\ tuser' = [tuser EXCEPT ![t] = u]
            /\ wnow' = [wnow EXCEPT ![t] = clock]
            /\ IF CacheLimited(u, clock)
               THEN /\ pc' = [pc EXCEPT ![t] = "answer"]
                    /\ UNCHANGED <<cache, changedCache, turnedAway>>
               ELSE /\ cache' = CacheAfterPass(u, clock)
                    /\ changedCache' = [changedCache EXCEPT ![t] =
                                           CacheAfterPass(u, clock) # cache]
                    /\ pc' = [pc EXCEPT ![t] = "connect"]
                    /\ UNCHANGED turnedAway
    /\ UNCHANGED <<clock, storeVars, monitorVars, rate_limits, blocked, dbnow, result,
                   prior, lastAllowed, handledLog>>

\* The "please wait" reply was sent; the wrapper returns.
W_Answered(t) ==
    /\ pc[t] = "answer"
    /\ TaskEnds(t)
    /\ UNCHANGED <<clock, storeVars, monitorVars, rate_limits, guardVars, lastAllowed,
                   turnedAway, handledLog>>

\* An action enters the wrapper when no other action is in progress.
Seq_Enter(t, u) ==
    /\ AllIdle
    /\ W_Enter(t, u)

\* _blocked_users.add(user_id)
BlockedAfterBlock(u) == blocked \cup {u}

\* _blocked_users.discard(user_id)
BlockedAfterUnblock(u) == blocked \ {u}

block_user(u) ==
    /\ blocked' = BlockedAfterBlock(u)
    /\ UNCHANGED <<clock, storeVars, monitorVars, rate_limits, cache, taskVars,
                   obsVars>>

\* unblock_user that also forgets the user's failed attempts.
unblock_user_ResetsCount(u) ==
    /\ blocked' = BlockedAfterUnblock(u)
    /\ failed_attempts' = [x \in DOMAIN failed_attempts \ {u} |-> failed_attempts[x]]
    /\ UNCHANGED <<suspicious_activity, audit, failedCalls>>
    /\ UNCHANGED <<clock, storeVars, rate_limits, cache, taskVars, obsVars>>

unblock_user(u) ==
    /\ blocked' = BlockedAfterUnblock(u)
    /\ UNCHANGED <<clock, storeVars, monitorVars, rate_limits, cache, taskVars,
                   obsVars>>

\* ---------------------------------------------------- verify_deal_access

\* HasAccess granting every user access to an existing deal.
HasAccess_AnyUser(deal, user_id) == deal # None

\* "if not deal: return False", "if deal['creator_id'] == user_id: return True",
\* "return False"
HasAccess(deal, user_id) ==
    IF deal = None THEN FALSE ELSE deal.creator_id = user_id

\* verify_deal_access: get_deal answers from the store, or has caught an
\* error of the store and returned None.
verify_deal_access(deal_id, user_id, read_ok) ==
    LET deal == IF read_ok
                THEN DictOrNone(SelectDeal(deal_id))
                ELSE ReadFailure("get_deal")
    IN
    /\ op' = [name |-> "verify_deal_access", deal_id |-> deal_id,
              user_id |-> user_id, ret |-> HasAccess(deal, user_id)]
    /\ UNCHANGED <<deals, users, payments>>
    /\ UNCHANGED <<clock, rate_limits, guardVars, monitorVars, taskVars, obsVars>>

\* ------------------------------------------------------ SecurityMonitor

\* One line of security.log (its leading timestamp is left out).
LogEntry(event_type, user_id, details) ==
    [event_type |-> event_type, user_id |-> user_id, details |-> details]

\* log_security_event: the line is appended, or the write fails and the
\* exception is swallowed.
log_security_event(log, event_type, user_id, details, write_ok) ==
    IF write_ok THEN Append(log, LogEntry(event_type, user_id, details)) ELSE log

\* Incremented with the "if user_id not in d" test left out.
Incremented_Reset(d, u) == DictPut(d, u, 1)

\* "if user_id not in d: d[user_id] = 0" followed by "d[user_id] += 1"
Incremented(d, u) ==
    DictPut(d, u, (IF u \in DOMAIN d THEN d[u] ELSE 0) + 1)

\* TooManyFailures with ">" for ">=".
TooManyFailures_Strict(count) == count > 5

\* "if self.failed_attempts[user_id] >= 5"
TooManyFailures(count) == count >= 5

\* log_failed_attempt in which a failing write of the FAILED_ATTEMPT line ends
\* the call.
log_failed_attempt_Aborts(u, attempt_type, ok1, ok2) ==
    LET counts == Incremented(failed_attempts, u)
        log1 == log_security_event(audit, "FAILED_ATTEMPT", u,
                                   <<attempt_type, counts[u]>>, ok1)
    IN
    /\ failed_attempts' = counts
    /\ IF ok1 /\ TooManyFailures(counts[u])
       THEN /\ blocked' = BlockedAfterBlock(u)
            /\ audit' = log_security_event(log1, "AUTO_BLOCK", u,
                                           <<"Too many failed attempts">>, ok2)
       ELSE /\ audit' = log1
            /\ UNCHANGED blocked
    /\ failedCalls' = [failedCalls EXCEPT ![u] = @ + 1]
    /\ UNCHANGED <<clock, storeVars, rate_limits, cache, suspicious_activity,
                   taskVars, obsVars>>

\* log_failed_attempt runs from start to end without suspending.
log_failed_attempt(u, attempt_type, ok1, ok2) ==
    LET counts == Incremented(failed_attempts, u)
        log1 == log_security_event(audit, "FAILED_ATTEMPT", u,
                                   <<attempt_type, counts[u]>>, ok1)
    IN
    /\ failed_attempts' = counts
    /\ IF TooManyFailures(counts[u])
       THEN /\ blocked' = BlockedAfterBlock(u)
            /\ audit' = log_security_event(log1, "AUTO_BLOCK", u,
                                           <<"Too many failed attempts">>, ok2)
       ELSE /\ audit' = log1
            /\ UNCHANGED blocked
    /\ failedCalls' = [failedCalls EXCEPT ![u] = @ + 1]
    /\ UNCHANGED <<clock, storeVars, rate_limits, cache, suspicious_activity,
                   taskVars, obsVars>>

\* log_suspicious_activity blocking the user at the second report.
log_suspicious_activity_Blocks(u, activity, ok) ==
    /\ audit' = log_security_event(audit, "SUSPICIOUS", u, <<activity>>, ok)
    /\ suspicious_activity' = Incremented(suspicious_activity, u)
    /\ blocked' = IF Incremented(suspicious_activity, u)[u] >= 2
                  THEN BlockedAfterBlock(u)
                  ELSE blocked
    /\ UNCHANGED <<clock, storeVars, rate_limits, cache, failed_attempts,
                   failedCalls, taskVars, obsVars>>

\* log_suspicious_activity runs from start to end without suspending.
log_suspicious_activity(u, activity, ok) ==
    /\ audit' = log_security_event(audit, "SUSPICIOUS", u, <<activity>>, ok)
    /\ suspicious_activity' = Incremented(suspicious_activity, u)
    /\ UNCHANGED <<clock, storeVars, rate_limits, guardVars, failed_attempts,
                   failedCalls, taskVars, obsVars>>

FailedCount(u) == IF u \in DOMAIN failed_attempts THEN failed_attempts[u] ELSE 0
SuspiciousCount(u) ==
    IF u \in DOMAIN suspicious_activity THEN suspicious_activity[u] ELSE 0

Tick ==
    /\ clock < MaxTime
    /\ clock' = clock + 1
    /\ UNCHANGED <<storeVars, rate_limits, guardVars, monitorVars, taskVars, obsVars>>

\* ---------------------------------------------------------------- keyboard

\* InlineKeyboardButton(text=..., callback_data=f"{prefix}{deal_id}"): the
\* callback data is the prefix followed by the deal id.
InlineKeyboardButton(text, prefix, deal_id) ==
    [text |-> text, callback_data |-> <<prefix, deal_id>>]

\* The rows get_admin_deal_keyboard puts before the common buttons.
AdminActionRows(deal_id, status) ==
    IF status = "disputed"
    THEN << <<InlineKeyboardButton("Resolve (Release)", "admin_resolve_", deal_id),
              InlineKeyboardButton("Cancel Deal", "admin_cancel_", deal_id)>> >>
    ELSE IF status \in {"created", "funded"}
    THEN << <<InlineKeyboardButton("Force Release", "admin_resolve_", deal_id)>>,
            <<InlineKeyboardButton("Cancel Deal", "admin_cancel_", deal_id)>> >>
    ELSE << >>

\* "Common admin buttons", appended for every status.
AdminCommonRows(deal_id) ==
    << <<InlineKeyboardButton("View Details", "admin_deal_details_", deal_id)>>,
       <<InlineKeyboardButton("Back to Admin", "back_to_admin", "")>> >>

\* The inline_keyboard of the markup returned by get_admin_deal_keyboard.
AdminDealKeyboard(deal_id, status) ==
    AdminActionRows(deal_id, status) \o AdminCommonRows(deal_id)

get_admin_deal_keyboard(deal_id, status) ==
    /\ op' = [name |-> "get_admin_deal_keyboard", deal_id |-> deal_id,
              status |-> status, ret |-> AdminDealKeyboard(deal_id, status)]
    /\ UNCHANGED <<deals, users, payments>>
    /\ UNCHANGED <<clock, rate_limits, guardVars, monitorVars, taskVars, obsVars>>

\* -------------------------------------------------------------- validation

\* The limits validate_deal_data compares with.
DescriptionMin == 10
DescriptionMax == 500
AmountMin == 100
AmountMax == 500000
TermsMin == 20
TermsMax == 1000

\* A text is given by the number of whitespace characters around it and
\* the number of characters between them; the empty text has neither.
Text(pad, body) == [pad |-> pad, body |-> body]

\* len(text)
TextLen(text) == text.pad + text.body

\* text.strip(): the surrounding whitespace is removed.
strip(text) == Text(0, text.body)

\* "not text": None and the empty text are falsy.
Falsy(text) == IF text = None THEN TRUE ELSE TextLen(text) = 0

\* A float is a number or nan; every comparison with nan is false.
Number(v) == [nan |-> FALSE, v |-> v]
NaN == [nan |-> TRUE, v |-> 0]
FloatLE(x, n) == ~x.nan /\ x.v <= n
FloatLT(x, n) == ~x.nan /\ x.v < n
FloatGT(x, n) == ~x.nan /\ x.v > n

\* Arguments of validate_deal_data: texts around the length limits, with and
\* without surrounding whitespace, None, and amounts around the limits.
MaxPad == 1
DescriptionArgs ==
    {None} \cup
    {Text(p, b) :
        p \in 0..MaxPad,
        b \in {0, DescriptionMin - 1, DescriptionMin, DescriptionMax, DescriptionMax + 1}}
TermsArgs ==
    {None} \cup
    {Text(p, b) :
        p \in 0..MaxPad,
        b \in {0, TermsMin - 1, TermsMin, TermsMax, TermsMax + 1}}
AmountArgs ==
    {NaN} \cup
    {Number(v) :
        v \in {0 - 1, 0, 1, AmountMin - 1, AmountMin, AmountMax, AmountMax + 1}}

\* not description or len(description.strip()) < 10
DescriptionTooShort(description) ==
    IF Falsy(description) THEN TRUE
    ELSE TextLen(strip(description)) < DescriptionMin

\* not terms or len(terms.strip()) < 20
TermsTooShort(terms) ==
    IF Falsy(terms) THEN TRUE
    ELSE TextLen(strip(terms)) < TermsMin

\* The pair returned by validate_deal_data.
ValidateDealData(description, amount, terms) ==
    IF DescriptionTooShort(description)
    THEN <<FALSE, "Description must be at least 10 characters">>
    ELSE IF TextLen(strip(description)) > DescriptionMax
    THEN <<FALSE, "Description must be less than 500 characters">>
    ELSE IF FloatLE(amount, 0)
    THEN <<FALSE, "Amount must be greater than 0">>
    ELSE IF FloatLT(amount, AmountMin)
    THEN <<FALSE, "Minimum amount is ₹100">>
    ELSE IF FloatGT(amount, AmountMax)
    THEN <<FALSE, "Maximum amount is ₹5,00,000">>
    ELSE IF TermsTooShort(terms)
    THEN <<FALSE, "Terms must be at least 20 characters">>
    ELSE IF TextLen(strip(terms)) > TermsMax
    THEN <<FALSE, "Terms must be less than 1000 characters">>
    ELSE <<TRUE, "Valid">>

validate_deal_data(description, amount, terms) ==
    /\ op' = [name |-> "validate_deal_data", description |-> description,
              amount |-> amount, terms |-> terms,
              ret |-> ValidateDealData(description, amount, terms)]
    /\ UNCHANGED <<deals, users, payments>>
    /\ UNCHANGED <<clock, rate_limits, guardVars, monitorVars, taskVars, obsVars>>

\* ------------------------------------------------------------ Deal to dict

\* class DealStatus(Enum): the members, each with its name and its value.
DealStatusMembers ==
    {[name |-> "CREATED", value |-> CREATED],
     [name |-> "FUNDED", value |-> FUNDED],
     [name |-> "COMPLETED", value |-> COMPLETED],
     [name |-> "DISPUTED", value |-> DISPUTED],
     [name |-> "CANCELLED", value |-> CANCELLED]}

\* Raised by DealStatus(value) when no member has the value.
ValueError == [raises |-> "ValueError"]

\* DealStatus(value): the member with that value.
DealStatusOf(value) ==
    IF \E m \in DealStatusMembers : m.value = value
    THEN CHOOSE m \in DealStatusMembers : m.value = value
    ELSE ValueError

\* A datetime object holding the time t.
Datetime(t) == [ts |-> t]

\* "x if self.created_at else None": a datetime object is always true,
\* None is false.
DatetimeOrNone(dt) ==
    IF dt = None THEN None ELSE isoformat(dt.ts)

\* "x if data.get('created_at') else None": None and the empty text are
\* false, any other text is parsed.
ParsedOrNone(text) ==
    IF text = None THEN None
    ELSE IF Len(text) = 0 THEN None
    ELSE Datetime(fromisoformat(text))

\* data.get(key, default)
DictGet(data, key, default) ==
    IF key \in DOMAIN data THEN data[key] ELSE default

\* Deal(...): the dataclass instance.
Deal(deal_id, creator_id, description, amount, terms, status, created_at, updated_at) ==
    [deal_id |-> deal_id, creator_id |-> creator_id, description |-> description,
     amount |-> amount, terms |-> terms, status |-> status,
     created_at |-> created_at, updated_at |-> updated_at]

\* ToDict storing the status member's name for its value.
ToDict_StatusName(self) ==
    [deal_id |-> self.deal_id, creator_id |-> self.creator_id,
     description |-> self.description, amount |-> self.amount,
     terms |-> self.terms, status |-> self.status.name,
     created_at |-> DatetimeOrNone(self.created_at),
     updated_at |-> DatetimeOrNone(self.updated_at)]

\* Deal.to_dict
ToDict(self) ==
    [deal_id |-> self.deal_id, creator_id |-> self.creator_id,
     description |-> self.description, amount |-> self.amount,
     terms |-> self.terms, status |-> self.status.value,
     created_at |-> DatetimeOrNone(self.created_at),
     updated_at |-> DatetimeOrNone(self.updated_at)]

\* Deal.from_dict: the instance, or the error raised by DealStatus(...).
FromDict(data) ==
    IF DealStatusOf(DictGet(data, "status", CREATED)) = ValueError
    THEN ValueError
    ELSE Deal(data["deal_id"], data["creator_id"], data["description"],
              data["amount"], data["terms"],
              DealStatusOf(DictGet(data, "status", CREATED)),
              ParsedOrNone(DictGet(data, "created_at", None)),
              ParsedOrNone(DictGet(data, "updated_at", None)))

\* The Deal instances that are serialized.
DealTimes == {None} \cup {Datetime(t) : t \in 0..MaxStoreTime}
DealInstances ==
    {Deal(d, u, ds, a, tm, st, ca, ua) :
        d \in DealIds, u \in LedgerCreators, ds \in Descriptions, a \in Amounts,
        tm \in TermsTexts, st \in DealStatusMembers, ca \in DealTimes,
        ua \in DealTimes}

\* d.to_dict()
Deal_to_dict(self) ==
    /\ op' = [name |-> "to_dict", self |-> self, ret |-> ToDict(self)]
    /\ UNCHANGED <<deals, users, payments>>
    /\ UNCHANGED <<clock, rate_limits, guardVars, monitorVars, taskVars, obsVars>>

\* Deal.from_dict(data), for the dict a to_dict call has just returned.
Deal_from_dict ==
    /\ op.name = "to_dict"
    /\ op' = [name |-> "from_dict", self |-> op.self, data |-> op.ret,
              ret |-> FromDict(op.ret)]
    /\ UNCHANGED <<deals, users, payments>>
    /\ UNCHANGED <<clock, rate_limits, guardVars, monitorVars, taskVars, obsVars>>

\* ------------------------------------------- get_deal_stats, step by step

\* The keys of the stats dict, in the order in which their queries run.
StatsKeys ==
    <<"total_deals", "active_deals", "completed_deals", "disputed_deals",
      "total_value">>

\* The value the query of a key returns on the deals table as it now is.
StatsQuery(key) ==
    CASE key = "total_deals" -> SelectCountAll
      [] key = "active_deals" -> SelectCount({"created", "funded"})
      [] key = "completed_deals" -> SelectCount({"completed"})
      [] key = "disputed_deals" -> SelectCount({"disputed"})
      [] key = "total_value" -> StatsTotalValue

\* The key whose query follows the query of StatsKeys[k] ("" after the last).
NextStatsKey(key) ==
    LET k == CHOOSE i \in 1..Len(StatsKeys) : StatsKeys[i] = key
    IN  IF k = Len(StatsKeys) THEN "" ELSE StatsKeys[k + 1]

\* get_deal_stats is called: the connection is opened and "stats = {}".
Stats_Call(t) ==
    /\ pc[t] = "idle"
    /\ pc' = [pc EXCEPT ![t] = StatsKeys[1]]
    /\ tmode' = [tmode EXCEPT ![t] = "stats"]
    /\ result' = [result EXCEPT ![t] = EmptyDict]
    /\ UNCHANGED <<clock, storeVars, monitorVars, rate_limits, guardVars, tuser,
                   wnow, dbnow, obsVars>>

\* The next query runs on the table as committed at that moment and
\* fetchone() resumes the coroutine, which stores the value under its key;
\* after the last query the dict is returned.
Stats_Query(t) ==
    /\ tmode[t] = "stats"
    /\ pc[t] # "idle"
    /\ LET stats == DictPut(result[t], pc[t], StatsQuery(pc[t]))
       IN  IF NextStatsKey(pc[t]) = ""
           THEN /\ op' = [name |-> "get_deal_stats", ret |-> stats]
                /\ TaskEnds(t)
                /\ UNCHANGED <<deals, users, payments>>
           ELSE /\ pc' = [pc EXCEPT ![t] = NextStatsKey(pc[t])]
                /\ result' = [result EXCEPT ![t] = stats]
                /\ UNCHANGED <<storeVars, tmode, tuser, wnow, dbnow, prior,
                               changedCache>>
    /\ UNCHANGED <<clock, monitorVars, rate_limits, guardVars, lastAllowed,
                   turnedAway, handledLog>>

\* ------------------------------------------------------- specifications
Init ==
    /\ clock = 0
    /\ deals = <<>>
    /\ users = {}
    /\ payments = <<>>
    /\ rate_limits = {}
    /\ op = NoOp
    /\ cache = EmptyDict
    /\ blocked = {}
    /\ failed_attempts = EmptyDict
    /\ suspicious_activity = EmptyDict
    /\ audit = <<>>
    /\ failedCalls = [u \in Users |-> 0]
    /\ pc = [t \in Tasks |-> "idle"]
    /\ tmode = [t \in Tasks |-> "none"]
    /\ tuser = [t \in Tasks |-> 0]
    /\ wnow = [t \in Tasks |-> 0]
    /\ dbnow = [t \in Tasks |-> 0]
    /\ result = [t \in Tasks |-> FALSE]
    /\ prior = [t \in Tasks |-> NoRow]
    /\ changedCache = [t \in Tasks |-> FALSE]
    /\ lastAllowed = EmptyDict
    /\ turnedAway = {}
    /\ handledLog = [k \in Users \X (0..MaxTime) |-> 0]

\* The deals table under any sequence of store calls.
StoreNext ==
    \/ \E d \in DealIds, u \in Users, ds \in Descriptions, a \in Amounts,
          tm \in TermsTexts : create_deal(d, u, ds, a, tm)
    \/ \E d \in DealIds, s \in DealStatus : update_deal_status(d, s)
    \/ StoreTick

SpecStore == Init /\ [][StoreNext]_vars

\* Every operation of the store, called one after the other; the store
\* answers every call.  Deals are created by LedgerCreators and moved to
\* LedgerStatuses, payments are made by LedgerPayers, and check_rate_limit is
\* called by the task LedgerTask for LedgerPayers.
LedgerNext ==
    \/ \E u \in Users, n \in LedgerUsernames, f \in FirstNames : create_user(u, n, f)
    \/ \E d \in DealIds, u \in LedgerCreators, ds \in Descriptions, a \in Amounts,
          tm \in TermsTexts : create_deal(d, u, ds, a, tm)
    \/ \E d \in DealIds, s \in LedgerStatuses : update_deal_status(d, s)
    \/ \E d \in DealIds, u \in LedgerPayers, a \in LedgerPaymentAmounts,
          m \in PaymentMethods, r \in ReferenceIds, ps \in PaymentStatuses :
          /\ Len(payments) < MaxPayments
          /\ create_payment_record(d, u, a, m, r, ps)
    \/ get_deal_stats
    \/ \E u \in LedgerPayers : Seq_Call(LedgerTask, u)
    \/ Db_Connect(LedgerTask) \/ Db_Select(LedgerTask) \/ Db_Insert(LedgerTask)
    \/ Db_Return(LedgerTask) \/ Caller_Done(LedgerTask)

SpecLedger == Init /\ [][LedgerNext]_vars

\* The deals table and the operations reading it.
ReadNext ==
    \/ \E d \in DealIds, u \in Users, ds \in Descriptions, a \in Amounts,
          tm \in TermsTexts : create_deal(d, u, ds, a, tm)
    \/ \E d \in DealIds, s \in DealStatus : update_deal_status(d, s)
    \/ \E d \in DealIds : get_deal(d)
    \/ \E u \in Users : get_user_deals(u)
    \/ \E s \in DealStatus \cup {""} : get_all_deals(s)
    \/ \E d \in DealIds, u \in Users : verify_deal_access(d, u, TRUE)
    \/ get_deal_stats

SpecRead == Init /\ [][ReadNext]_vars

\* The operations reading and writing users, deals and payments, each of
\* which may find the store raising an error (the listing operations
\* get_user_deals and get_all_deals only with the store raising).
FaultyNext ==
    \/ \E u \in Users, n \in LedgerUsernames, f \in FirstNames :
          create_user(u, n, f) \/ create_user_raises(u, n, f)
    \/ \E d \in DealIds, u \in LedgerCreators, ds \in Descriptions, a \in Amounts,
          tm \in TermsTexts :
          create_deal(d, u, ds, a, tm) \/ create_deal_raises(d, u, ds, a, tm)
    \/ \E d \in DealIds, s \in LedgerStatuses :
          update_deal_status(d, s) \/ update_deal_status_raises(d, s)
    \/ \E d \in DealIds, u \in LedgerPayers, a \in LedgerPaymentAmounts,
          m \in PaymentMethods, r \in ReferenceIds, ps \in PaymentStatuses :
          \/ /\ Len(payments) < MaxPayments
             /\ create_payment_record(d, u, a, m, r, ps)
          \/ create_payment_record_raises(d, u, a, m, r, ps)
    \/ \E u \in Users : get_user(u)
    \/ \E d \in DealIds : get_deal(d)
    \/ get_deal_stats
    \/ \E name \in ReadOperations : read_raises(name)

SpecFaulty == Init /\ [][FaultyNext]_vars

\* The users table under create_user calls, with deals being created
\* meanwhile and time passing.
UsersNext ==
    \/ \E u \in Users, n \in Usernames, f \in FirstNames :
          create_user(u, n, f) \/ create_user_raises(u, n, f)
    \/ \E u \in Users : get_user(u)
    \/ \E d \in DealIds, u \in LedgerCreators, ds \in Descriptions, a \in Amounts,
          tm \in TermsTexts : create_deal(d, u, ds, a, tm)
    \/ StoreTick

SpecUsers == Init /\ [][UsersNext]_vars

\* check_rate_limit called by one handler after the other.
RateSeqNext ==
    \/ \E t \in Tasks, u \in Users : Seq_Call(t, u)
    \/ \E t \in Tasks : Db_Connect(t) \/ Db_Select(t) \/ Db_Insert(t) \/ Db_Return(t)
    \/ \E t \in Tasks : Caller_Done(t)
    \/ Tick

SpecRateSeq == Init /\ [][RateSeqNext]_vars

\* check_rate_limit called by concurrent handlers.
RateDbNext ==
    \/ \E t \in Tasks, u \in Users : Direct_Call(t, u)
    \/ \E t \in Tasks : Db_Connect(t) \/ Db_Select(t) \/ Db_Insert(t) \/ Db_Return(t)
    \/ \E t \in Tasks : Caller_Done(t)
    \/ Tick

SpecRateDb == Init /\ [][RateDbNext]_vars

\* Concurrent handlers behind the rate_limit decorator.
RateNext ==
    \/ \E t \in Tasks, u \in Users : W_Enter(t, u)
    \/ \E t \in Tasks : W_Answered(t)
    \/ \E t \in Tasks : Db_Connect(t) \/ Db_Select(t) \/ Db_Insert(t) \/ Db_Return(t)
    \/ Tick

SpecRate == Init /\ [][RateNext]_vars

\* Handlers behind the rate_limit decorator, one action after the other.
WrapperSeqNext ==
    \/ \E t \in Tasks, u \in Users : Seq_Enter(t, u)
    \/ \E t \in Tasks : W_Answered(t)
    \/ \E t \in Tasks : Db_Connect(t) \/ Db_Select(t) \/ Db_Insert(t) \/ Db_Return(t)
    \/ Tick

SpecWrapperSeq == Init /\ [][WrapperSeqNext]_vars

\* Handlers behind the rate_limit decorator, one action after the other,
\* with the store raising errors now and then and the process being
\* restarted; the actions are those of the users in FailOpenUsers.
FailOpenNext ==
    \/ \E u \in FailOpenUsers : Seq_Enter(LedgerTask, u)
    \/ W_Answered(LedgerTask)
    \/ Db_Connect(LedgerTask) \/ Db_Select(LedgerTask) \/ Db_Insert(LedgerTask)
    \/ Db_Return(LedgerTask)
    \/ Db_Raises(LedgerTask)
    \/ Restart
    \/ Tick

SpecFailOpen == Init /\ [][FailOpenNext]_vars

\* The same, with the users in GuardedUsers being blocked and unblocked
\* meanwhile.
GuardNext ==
    \/ \E t \in Tasks, u \in Users : W_Enter(t, u)
    \/ \E t \in Tasks : W_Answered(t)
    \/ \E t \in Tasks : Db_Connect(t) \/ Db_Select(t) \/ Db_Insert(t) \/ Db_Return(t)
    \/ \E u \in GuardedUsers : block_user(u) \/ unblock_user(u)
    \/ Tick

SpecGuard == Init /\ [][GuardNext]_vars

\* The security monitor called by handlers, nobody blocking or unblocking
\* by hand; the log file is writable.
AutoNext ==
    \/ \E u \in Users, a \in AttemptTypes :
          /\ FailedCount(u) < MaxFailed
          /\ Len(audit) < MaxLog
          /\ log_failed_attempt(u, a, TRUE, TRUE)
    \/ \E u \in Users, a \in Activities :
          /\ SuspiciousCount(u) < MaxSuspicious
          /\ Len(audit) < MaxLog
          /\ log_suspicious_activity(u, a, TRUE)

SpecAuto == Init /\ [][AutoNext]_vars

\* The same, with other handlers blocking and unblocking users in between.
MonitorNext ==
    \/ \E u \in Users, a \in AttemptTypes :
          /\ FailedCount(u) < MaxFailed
          /\ Len(audit) < MaxLog
          /\ log_failed_attempt(u, a, TRUE, TRUE)
    \/ \E u \in Users, a \in Activities :
          /\ SuspiciousCount(u) < MaxSuspicious
          /\ Len(audit) < MaxLog
          /\ log_suspicious_activity(u, a, TRUE)
    \/ \E u \in Users : block_user(u) \/ unblock_user(u)

SpecMonitor == Init /\ [][MonitorNext]_vars

\* The security monitor with security.log failing to take a line now and
\* then; nobody blocks or unblocks by hand.
LogFailNext ==
    \/ \E u \in Users, a \in AttemptTypes, ok1, ok2 \in BOOLEAN :
          /\ FailedCount(u) < MaxFailed
          /\ (ok1 \/ ok2) => Len(audit) < MaxLogFail
          /\ log_failed_attempt(u, a, ok1, ok2)
    \/ \E u \in Users, a \in Activities, ok \in BOOLEAN :
          /\ SuspiciousCount(u) < MaxSuspicious
          /\ ok => Len(audit) < MaxLogFail
          /\ log_suspicious_activity(u, a, ok)

SpecLogFail == Init /\ [][LogFailNext]_vars

\* The admin's view of the deals: deals are created and moved between
\* statuses, and the admin keyboard is built for a deal id and a status.
AdminNext ==
    \/ \E d \in DealIds, u \in LedgerCreators, ds \in Descriptions, a \in Amounts,
          tm \in TermsTexts : create_deal(d, u, ds, a, tm)
    \/ \E d \in DealIds, s \in DealStatus : update_deal_status(d, s)
    \/ \E d \in DealIds, s \in DealStatus : get_admin_deal_keyboard(d, s)

SpecAdmin == Init /\ [][AdminNext]_vars

\* validate_deal_data called with any of the arguments.
ValidateNext ==
    \E ds \in DescriptionArgs, a \in AmountArgs, tm \in TermsArgs :
        validate_deal_data(ds, a, tm)

SpecValidate == Init /\ [][ValidateNext]_vars

\* A Deal is serialized and the dict is read back.
DealDictNext ==
    \/ \E self \in DealInstances : Deal_to_dict(self)
    \/ Deal_from_dict

SpecDealDict == Init /\ [][DealDictNext]_vars

\* get_deal_stats running while other handlers create deals and change
\* their status.
StatsNext ==
    \/ \E d \in DealIds, u \in LedgerCreators, ds \in Descriptions, a \in Amounts,
          tm \in TermsTexts : create_deal(d, u, ds, a, tm)
    \/ \E d \in DealIds, s \in DealStatus : update_deal_status(d, s)
    \/ Stats_Call(LedgerTask)
    \/ Stats_Query(LedgerTask)

SpecStats == Init /\ [][StatsNext]_vars

\* ==================================================================
\* Claims about the deals table
\* ==================================================================

\* The deal lifecycle of the design (section 4.4): the edges along which a
\* deal's status may move.
TransitionGraph ==
    {<<CREATED, FUNDED>>, <<FUNDED, COMPLETED>>, <<FUNDED, DISPUTED>>,
     <<DISPUTED, COMPLETED>>, <<CREATED, CANCELLED>>, <<DISPUTED, CANCELLED>>}

TerminalStatus == {COMPLETED, CANCELLED}

\* C1: a deal's status changes only along an edge of the transition graph;
\* any other change is rejected and leaves the status as it was.
C1_OnlyLegalTransitions ==
    [][\A i \in 1..Len(deals) :
          deals'[i].status # deals[i].status
              => <<deals[i].status, deals'[i].status>> \in TransitionGraph]_vars

\* C2: once a deal is COMPLETED or CANCELLED its status never changes again.
C2_TerminalIsFinal ==
    [][\A i \in 1..Len(deals) :
          deals[i].status \in TerminalStatus
              => deals'[i].status = deals[i].status]_vars

\* C10, state part: no two rows of the deals table share a deal_id.
DealIdsUnique ==
    \A i, j \in 1..Len(deals) : deals[i].deal_id = deals[j].deal_id => i = j

\* C10, step part: what one create_deal call does.
CreateDealStep(d, u, ds, a, tm) ==
    IF \E i \in 1..Len(deals) : deals[i].deal_id = d
    THEN /\ op'.ret = FALSE
         /\ deals' = deals
    ELSE /\ op'.ret = TRUE
         /\ Len(deals') = Len(deals) + 1
         /\ SubSeq(deals', 1, Len(deals)) = deals
         /\ deals'[Len(deals')].deal_id = d
         /\ deals'[Len(deals')].creator_id = u
         /\ deals'[Len(deals')].description = ds
         /\ deals'[Len(deals')].amount = a
         /\ deals'[Len(deals')].terms = tm
         /\ deals'[Len(deals')].status = CREATED

\* C10: create_deal with an existing deal_id fails and changes no deal;
\* with a fresh deal_id it succeeds and adds exactly one CREATED deal; hence
\* deal_ids stay unique.
C10_CreateDealUnique ==
    /\ []DealIdsUnique
    /\ [][\A d \in DealIds, u \in Users, ds \in Descriptions, a \in Amounts,
             tm \in TermsTexts :
             create_deal(d, u, ds, a, tm) => CreateDealStep(d, u, ds, a, tm)]_vars

\* A create_deal for a taken deal_id, with another creator and amount, has
\* just failed, and the existing deal has moved on since its creation.
C10_Witness ==
    /\ op.name = "create_deal"
    /\ op.ret = FALSE
    /\ \E i \in 1..Len(deals) :
          /\ deals[i].deal_id = op.deal_id
          /\ deals[i].amount # op.amount
          /\ deals[i].creator_id # op.creator_id
          /\ deals[i].status = FUNDED
    /\ Len(deals) = 2

\* ==================================================================
\* Claims about rate limiting
\* ==================================================================

Elapsed(now, row) == now - fromisoformat(row[1])

\* C3: calls made one after the other.  A call that finds no record, or one
\* at least the window old, returns True and stores its own timestamp.  A
\* call made less than the window after the stored timestamp returns False
\* and leaves the stored last_action at the timestamp of the earlier,
\* allowed call.
C3_SequentialRateLimit ==
    \A t \in Tasks :
        pc[t] = "returned" =>
            /\ (prior[t] = NoRow \/ Elapsed(dbnow[t], prior[t]) >= RATE_LIMIT_SECONDS)
                  => /\ result[t] = TRUE
                     /\ SelectLastAction(tuser[t]) = <<isoformat(dbnow[t])>>
            /\ (prior[t] # NoRow /\ Elapsed(dbnow[t], prior[t]) < RATE_LIMIT_SECONDS)
                  => /\ result[t] = FALSE
                     /\ SelectLastAction(tuser[t]) = prior[t]
                     /\ tuser[t] \in DOMAIN lastAllowed
                     /\ prior[t] = <<isoformat(lastAllowed[tuser[t]])>>

\* A second call, one second after the allowed first one, has returned False.
C3_Witness ==
    \E t \in Tasks :
        /\ pc[t] = "returned"
        /\ result[t] = FALSE
        /\ tuser[t] \in DOMAIN lastAllowed
        /\ dbnow[t] = lastAllowed[tuser[t]] + 1
        /\ SelectLastAction(tuser[t]) = <<isoformat(lastAllowed[tuser[t]])>>

\* C4: of two concurrent check_rate_limit calls for one user whose
\* timestamps lie within one window, at most one returns True.
C4_AtMostOneAllowed ==
    \A t1, t2 \in Tasks :
        (/\ t1 # t2
         /\ pc[t1] = "returned" /\ pc[t2] = "returned"
         /\ tuser[t1] = tuser[t2]
         /\ dbnow[t1] - dbnow[t2] < RATE_LIMIT_SECONDS
         /\ dbnow[t2] - dbnow[t1] < RATE_LIMIT_SECONDS)
            => ~(result[t1] = TRUE /\ result[t2] = TRUE)

\* C5: of the actions of one user that entered the wrapper within one rate
\* window, at most one had its handler executed.
C5_OneHandlerPerWindow ==
    \A u \in Users : \A a, b \in 0..MaxTime :
        /\ handledLog[<<u, a>>] <= 1
        /\ (a < b /\ handledLog[<<u, a>>] > 0 /\ handledLog[<<u, b>>] > 0)
              => b - a >= RATE_LIMIT_SECONDS

\* Two actions of one user are in progress at once, entered within one
\* window: one is about to run its handler, the other is being turned away.
C5_Witness ==
    \E t1, t2 \in Tasks :
        /\ t1 # t2
        /\ tmode[t1] = "wrapper" /\ tmode[t2] = "wrapper"
        /\ tuser[t1] = tuser[t2]
        /\ pc[t1] = "commit"
        /\ pc[t2] = "answer"
        /\ wnow[t2] - wnow[t1] < RATE_LIMIT_SECONDS
        /\ wnow[t2] > wnow[t1]

\* The step in which the wrapper gives up a rate-limited action of task t.
WrapperRejects(t) ==
    /\ tmode[t] = "wrapper"
    /\ pc[t] \in {"answer", "select"}
    /\ pc'[t] = "idle"

\* C6: an action the wrapper rejects (by the cache check or by the durable
\* check) has changed neither the user's cache timestamp nor the user's
\* durable last_action.
C6_RejectDoesNotSlide ==
    [][\A t \in Tasks :
          WrapperRejects(t) => (~changedCache[t] /\ rate_limits' = rate_limits)]_vars

AutoBlockLogged(u, n) ==
    \E i \in 1..(Len(audit) - 1) :
        /\ audit[i].event_type = "FAILED_ATTEMPT"
        /\ audit[i].user_id = u
        /\ audit[i].details[2] = n
        /\ audit[i + 1].event_type = "AUTO_BLOCK"
        /\ audit[i + 1].user_id = u

\* C8: without manual blocking, a user is not blocked after 4 failed
\* attempts and is blocked after the 5th, whose FAILED_ATTEMPT line is
\* followed by an AUTO_BLOCK line.
C8_AutoBlockAtFive ==
    \A u \in Users :
        /\ failedCalls[u] <= 4 => u \notin blocked
        /\ failedCalls[u] >= 5 => (u \in blocked /\ AutoBlockLogged(u, 5))

\* A user has made exactly 5 failed attempts, with a suspicious-activity
\* report in between, while another user has made fewer.
C8_Witness ==
    \E u, v \in Users :
        /\ failedCalls[u] = 5
        /\ u \in blocked
        /\ SuspiciousCount(u) = 1
        /\ failedCalls[v] = 1
        /\ v \notin blocked

\* C9: every log_failed_attempt call raises the user's counter by exactly
\* one, whatever other handlers do in between, and the call that brings the
\* counter to 5 or more ends with the user blocked.
C9_NoLostUpdate ==
    /\ [](\A u \in Users : FailedCount(u) = failedCalls[u])
    /\ [][\A u \in Users :
             failedCalls'[u] # failedCalls[u]
                 => /\ failedCalls'[u] = failedCalls[u] + 1
                    /\ FailedCount(u)' = FailedCount(u) + 1
                    /\ (FailedCount(u)' >= 5 => u \in blocked')]_vars

\* Both users' attempts were interleaved, and a user with 5 attempts has
\* meanwhile been unblocked by another handler.
C9_Witness ==
    \E u, v \in Users :
        /\ u # v
        /\ FailedCount(u) = 5
        /\ u \notin blocked
        /\ FailedCount(v) = 1
        /\ audit[1].user_id = u
        /\ audit[2].user_id = v

\* ==================================================================
\* Claims about the store as a whole
\* ==================================================================

\* Row i of the deals table keeps what create_deal wrote into it.
KeepsCreationData(i) ==
    /\ deals'[i].deal_id = deals[i].deal_id
    /\ deals'[i].amount = deals[i].amount
    /\ deals'[i].creator_id = deals[i].creator_id
    /\ deals'[i].description = deals[i].description
    /\ deals'[i].terms = deals[i].terms

\* C11: whatever store operation runs, every existing deal stays in the table
\* with the amount, creator_id, description and terms it was created with.
C11_AmountImmutable ==
    [][/\ Len(deals') >= Len(deals)
       /\ \A i \in 1..Len(deals) : KeepsCreationData(i)]_vars

\* A completed deal, with users, payments and a rate-limit record stored,
\* has just been the target of a create_deal with another amount.
C11_Witness ==
    /\ op.name = "create_deal"
    /\ \E i \in 1..Len(deals) :
          /\ deals[i].deal_id = op.deal_id
          /\ deals[i].amount # op.amount
          /\ deals[i].status = COMPLETED
    /\ Len(deals) = 2
    /\ Len(payments) > 0
    /\ users # {}
    /\ rate_limits # {}

\* C12: update_deal_status on an existing deal returns True, sets that
\* deal's status to the given value and its updated_at to the current time,
\* whatever the status was, and touches no other deal; updated_at never
\* decreases and is never earlier than created_at.
C12_StatusOverwrite ==
    /\ [](\A i \in 1..Len(deals) : deals[i].updated_at >= deals[i].created_at)
    /\ [][/\ \A i \in 1..Len(deals) : deals'[i].updated_at >= deals[i].updated_at
          /\ \A d \in DealIds, st \in DealStatus :
                (op'.name = "update_deal_status" /\ update_deal_status(d, st)) =>
                    /\ op'.ret = TRUE
                    /\ Len(deals') = Len(deals)
                    /\ \A i \in 1..Len(deals) :
                          IF deals[i].deal_id = d
                          THEN /\ deals'[i].status = st
                               /\ deals'[i].updated_at = clock
                               /\ deals'[i].created_at = deals[i].created_at
                               /\ KeepsCreationData(i)
                          ELSE deals'[i] = deals[i]]_vars

\* A deal created earlier has just been set back to 'created', next to a
\* deal that was left alone.
C12_Witness ==
    /\ op.name = "update_deal_status"
    /\ op.status = CREATED
    /\ Len(deals) = 2
    /\ \E i, j \in 1..Len(deals) :
          /\ deals[i].deal_id = op.deal_id
          /\ deals[i].status = CREATED
          /\ deals[i].updated_at > deals[i].created_at
          /\ deals[j].deal_id # op.deal_id
          /\ deals[j].status = COMPLETED
          /\ deals[j].updated_at < clock

\* The persisted users, deals and payments are left as they were.
StoreUnchanged ==
    /\ users' = users
    /\ deals' = deals
    /\ payments' = payments

\* C13: a writing operation in which the store raised (an I/O error, or the
\* uniqueness constraint on deal_id) returns False and leaves users, deals
\* and payments unchanged; a reading operation in which the store raised
\* returns None (get_user, get_deal), an empty list (get_user_deals,
\* get_all_deals) or an empty dict (get_deal_stats) and changes nothing.
C13_FailurePolicy ==
    [][/\ op'.name = "create_user" =>
             \A u \in Users, n \in Usernames, f \in FirstNames :
                create_user_raises(u, n, f) => (op'.ret = FALSE /\ StoreUnchanged)
       /\ op'.name = "create_deal" =>
             \A d \in DealIds, u \in Users, ds \in Descriptions, a \in Amounts,
                tm \in TermsTexts :
                (\/ create_deal_raises(d, u, ds, a, tm)
                 \/ (create_deal(d, u, ds, a, tm) /\ DealIdTaken(d)))
                    => (op'.ret = FALSE /\ StoreUnchanged)
       /\ op'.name = "update_deal_status" =>
             \A d \in DealIds, st \in DealStatus :
                update_deal_status_raises(d, st)
                    => (op'.ret = FALSE /\ StoreUnchanged)
       /\ op'.name = "create_payment_record" =>
             \A d \in DealIds, u \in Users, a \in Amounts, m \in PaymentMethods,
                r \in ReferenceIds, ps \in PaymentStatuses :
                create_payment_record_raises(d, u, a, m, r, ps)
                    => (op'.ret = FALSE /\ StoreUnchanged)
       /\ \A name \in ReadOperations :
             (op'.name = name /\ read_raises(name)) =>
                 /\ StoreUnchanged
                 /\ name \in {"get_user", "get_deal"} => op'.ret = None
                 /\ name \in {"get_user_deals", "get_all_deals"} => Len(op'.ret) = 0
                 /\ name = "get_deal_stats" => DOMAIN op'.ret = {}]_vars

\* With users, deals and a payment stored, an update_deal_status to another
\* status has just failed.
C13_Witness ==
    /\ op.name = "update_deal_status"
    /\ op.ret = FALSE
    /\ \E i \in 1..Len(deals) :
          /\ deals[i].deal_id = op.deal_id
          /\ deals[i].status # op.status
    /\ Len(payments) > 0
    /\ users # {}

\* The rows of the deals table whose status is one of the given ones.
DealsWith(statuses) == {i \in 1..Len(deals) : deals[i].status \in statuses}

RECURSIVE AmountOver(_)
AmountOver(I) ==
    IF I = {}
    THEN 0
    ELSE LET i == CHOOSE j \in I : TRUE
         IN deals[i].amount + AmountOver(I \ {i})

\* C14: called with no mutation in progress, get_deal_stats returns the
\* number of deals, the number of CREATED or FUNDED deals, the numbers of
\* COMPLETED and of DISPUTED deals, and the sum of the amounts of exactly the
\* CREATED and FUNDED deals (0 when there are none); it changes no stored
\* state.
C14_StatsMatchDeals ==
    /\ [](op.name = "get_deal_stats" =>
            /\ op.ret.total_deals = Len(deals)
            /\ op.ret.active_deals = Cardinality(DealsWith({CREATED, FUNDED}))
            /\ op.ret.completed_deals = Cardinality(DealsWith({COMPLETED}))
            /\ op.ret.disputed_deals = Cardinality(DealsWith({DISPUTED}))
            /\ op.ret.total_value = AmountOver(DealsWith({CREATED, FUNDED})))
    /\ [][get_deal_stats => (StoreUnchanged /\ rate_limits' = rate_limits)]_vars

\* Statistics were taken with a created deal of 100 and a disputed deal of
\* 1000 in the table.
C14_Witness ==
    /\ op.name = "get_deal_stats"
    /\ op.ret.total_deals = 2
    /\ op.ret.active_deals = 1
    /\ op.ret.disputed_deals = 1
    /\ op.ret.total_value = 100
    /\ \E i, j \in 1..Len(deals) :
          /\ deals[i].status = CREATED /\ deals[i].amount = 100
          /\ deals[j].status = DISPUTED /\ deals[j].amount = 1000

\* C15: verify_deal_access returns True exactly when the deal exists and
\* its creator_id is the given user_id, False for a missing deal and for any
\* other user, and it changes no state.
C15_CreatorOnlyAccess ==
    /\ [](op.name = "verify_deal_access" =>
            (op.ret = TRUE <=>
                \E i \in 1..Len(deals) :
                    /\ deals[i].deal_id = op.deal_id
                    /\ deals[i].creator_id = op.user_id))
    /\ [][\A d \in DealIds, u \in Users :
             verify_deal_access(d, u, TRUE) =>
                 /\ op'.ret \in BOOLEAN
                 /\ StoreUnchanged
                 /\ UNCHANGED <<rate_limits, guardVars, monitorVars>>]_vars

\* Access to an existing deal was refused to a user who created another
\* deal but not this one.
C15_Witness ==
    /\ op.name = "verify_deal_access"
    /\ op.ret = FALSE
    /\ \E i, j \in 1..Len(deals) :
          /\ deals[i].deal_id = op.deal_id
          /\ deals[i].creator_id # op.user_id
          /\ deals[j].creator_id = op.user_id

\* What one successful create_payment_record call does.
PaymentAppended(d, u, a, m, r, ps) ==
    /\ op'.ret = TRUE
    /\ Len(payments') = Len(payments) + 1
    /\ SubSeq(payments', 1, Len(payments)) = payments
    /\ payments'[Len(payments')].deal_id = d
    /\ payments'[Len(payments')].payer_id = u
    /\ payments'[Len(payments')].amount = a
    /\ payments'[Len(payments')].payment_method = m
    /\ payments'[Len(payments')].reference_id = r
    /\ payments'[Len(payments')].status = ps
    /\ deals' = deals
    /\ users' = users

\* C16: every successful create_payment_record adds exactly one payment
\* record, also when the same record is already there, and changes no
\* existing payment and no deal.
C16_PaymentPureAppend ==
    [][\A d \in DealIds, u \in Users, a \in Amounts, m \in PaymentMethods,
          r \in ReferenceIds, ps \in PaymentStatuses :
          (op'.name = "create_payment_record" /\ create_payment_record(d, u, a, m, r, ps))
              => PaymentAppended(d, u, a, m, r, ps)]_vars

\* The same payment is recorded twice for a deal whose status is still
\* 'created'.
C16_Witness ==
    /\ op.name = "create_payment_record"
    /\ Len(payments) = 2
    /\ [payments[1] EXCEPT !.created_at = 0] = [payments[2] EXCEPT !.created_at = 0]
    /\ \E i \in 1..Len(deals) :
          /\ deals[i].deal_id = payments[1].deal_id
          /\ deals[i].status = CREATED
          /\ deals[i].updated_at = deals[i].created_at

\* C17: create_user for an existing user_id returns True; after any
\* create_user call the table holds exactly one row for that user_id, with
\* the given username and first_name and is_active set, whatever was there
\* before (so repeating the call changes none of these); no operation
\* removes a user's row.
C17_UserUpsert ==
    /\ [](\A u \in Users : Cardinality(UserRows(u)) <= 1)
    /\ [][/\ \A u \in Users : UserRows(u) # {} => UserRows(u)' # {}
          /\ \A u \in Users, n \in Usernames, f \in FirstNames :
                create_user(u, n, f) =>
                    /\ op'.ret = TRUE
                    /\ \E r \in users' :
                          /\ UserRows(u)' = {r}
                          /\ r.username = n
                          /\ r.first_name = f
                          /\ r.is_active = TRUE
                    /\ \A v \in Users \ {u} : UserRows(v)' = UserRows(v)]_vars

\* A create_user call has replaced the row of a user who was already
\* registered, next to another user registered earlier under another name.
C17_Witness ==
    /\ op.name = "create_user"
    /\ op.replaced
    /\ op.ret = TRUE
    /\ Cardinality(users) = 2
    /\ \E r, q \in users :
          /\ r.user_id = op.user_id
          /\ r.username = op.username
          /\ r.created_at = clock
          /\ q.user_id # op.user_id
          /\ q.username # op.username
          /\ q.created_at < clock

\* ==================================================================
\* Further claims about the security monitor and the wrapper
\* ==================================================================

\* C18: a log_suspicious_activity call leaves the blocked set and the
\* failed_attempts counters as they were; it raises suspicious_activity of
\* its user by one and appends one SUSPICIOUS line for that user.
C18_SuspiciousNeverBlocks ==
    [][\A u \in Users, a \in Activities :
          log_suspicious_activity(u, a, TRUE) =>
              /\ blocked' = blocked
              /\ failed_attempts' = failed_attempts
              /\ SuspiciousCount(u)' = SuspiciousCount(u) + 1
              /\ \A v \in Users \ {u} : SuspiciousCount(v)' = SuspiciousCount(v)
              /\ Len(audit') = Len(audit) + 1
              /\ SubSeq(audit', 1, Len(audit)) = audit
              /\ audit'[Len(audit')].event_type = "SUSPICIOUS"
              /\ audit'[Len(audit')].user_id = u]_vars

\* A user with 4 failed attempts was reported twice and is not blocked.
C18_Witness ==
    \E u \in Users :
        /\ SuspiciousCount(u) = 2
        /\ FailedCount(u) = 4
        /\ u \notin blocked
        /\ Len(audit) = 6
        /\ audit[Len(audit)].event_type = "SUSPICIOUS"
        /\ audit[Len(audit)].user_id = u

\* C19: with log writes failing, every log_failed_attempt call still raises
\* the counter by one and the user is blocked from the 5th call on (and not
\* before); every log_suspicious_activity call still raises its counter.
C19_LogFailureSwallowed ==
    /\ [](\A u \in Users :
            /\ FailedCount(u) = failedCalls[u]
            /\ failedCalls[u] >= 5 => u \in blocked
            /\ failedCalls[u] <= 4 => u \notin blocked)
    /\ [][\A u \in Users :
             /\ \A a \in AttemptTypes, ok1, ok2 \in BOOLEAN :
                   (log_failed_attempt(u, a, ok1, ok2) /\ ~(ok1 /\ ok2)) =>
                       /\ FailedCount(u)' = FailedCount(u) + 1
                       /\ FailedCount(u)' >= 5 => u \in blocked'
             /\ \A a \in Activities :
                   log_suspicious_activity(u, a, FALSE) =>
                       /\ SuspiciousCount(u)' = SuspiciousCount(u) + 1
                       /\ audit' = audit]_vars

\* A user was blocked by the 5th failed attempt, and reported once, without
\* a single line having reached the log.
C19_Witness ==
    \E u \in Users :
        /\ failedCalls[u] = 5
        /\ u \in blocked
        /\ SuspiciousCount(u) = 1
        /\ Len(audit) = 0

\* C20: an action of a non-blocked user whose cache timestamp is less than
\* RATE_LIMIT_SECONDS old goes straight to the "please wait" reply and then
\* returns: check_rate_limit is not called, the store is not touched and the
\* handler is not executed.
C20_FastPathReject ==
    [][\A t \in Tasks :
          /\ \A u \in Users :
                (/\ W_Enter(t, u)
                 /\ u \notin blocked
                 /\ u \in DOMAIN cache
                 /\ clock - cache[u] < RATE_LIMIT_SECONDS)
                    => /\ pc'[t] = "answer"
                       /\ cache' = cache
                       /\ rate_limits' = rate_limits
                       /\ handledLog' = handledLog
          /\ (pc[t] = "answer" /\ pc'[t] # "answer")
                => /\ pc'[t] = "idle"
                   /\ cache' = cache
                   /\ rate_limits' = rate_limits
                   /\ handledLog' = handledLog]_vars

\* An action is being turned away by the cache check one second after the
\* user's previous action, while the store holds no record of the user.
C20_Witness ==
    \E t \in Tasks :
        /\ pc[t] = "answer"
        /\ tuser[t] \notin blocked
        /\ wnow[t] = cache[tuser[t]] + 1
        /\ RateRows(tuser[t]) = {}

\* ---------------------------------------------------------------- C29
\* C29: update_deal_status with a deal_id that no deal has returns True,
\* creates no deal and changes no deal: the deals table is left exactly as
\* it was, and the value returned is the one returned for an applied change.
C29_MissingDealIsNoOp ==
    [][\A d \in DealIds, st \in DealStatus :
          (/\ op'.name = "update_deal_status"
           /\ update_deal_status(d, st)
           /\ \A i \in 1..Len(deals) : deals[i].deal_id # d)
              => /\ op'.ret = TRUE
                 /\ deals' = deals
                 /\ \A i \in 1..Len(deals') : deals'[i].deal_id # d]_vars

\* update_deal_status has just returned True for a deal_id that no deal has,
\* while another deal exists whose status is not the one that was asked for.
C29_Witness ==
    /\ op.name = "update_deal_status"
    /\ op.ret = TRUE
    /\ \A i \in 1..Len(deals) : deals[i].deal_id # op.deal_id
    /\ \E i \in 1..Len(deals) : deals[i].status # op.status

\* ---------------------------------------------------------------- C26
\* The status a deal is moved to by the action a callback prefix stands for.
AdminActionTarget(prefix) ==
    IF prefix = "admin_resolve_" THEN COMPLETED
    ELSE IF prefix = "admin_cancel_" THEN CANCELLED
    ELSE ""

\* C26: every status-changing button of the keyboard built for a status
\* (admin_resolve leading to COMPLETED, admin_cancel leading to CANCELLED)
\* is an edge of the transition graph from that status: release is offered
\* only for FUNDED and DISPUTED, cancel only for CREATED and DISPUTED, and
\* nothing status-changing for COMPLETED or CANCELLED.
C26_AdminKeyboardLegal ==
    op.name = "get_admin_deal_keyboard" =>
        \A i \in 1..Len(op.ret) : \A j \in 1..Len(op.ret[i]) :
            AdminActionTarget(op.ret[i][j].callback_data[1]) # "" =>
                <<op.status, AdminActionTarget(op.ret[i][j].callback_data[1])>>
                    \in TransitionGraph

\* ---------------------------------------------------------------- C21
\* The trimmed length of a text argument (None has no characters).
TrimmedLen(text) == IF text = None THEN 0 ELSE text.body

\* The amount is a number in [lo, hi].
AmountWithin(x, lo, hi) == ~x.nan /\ lo <= x.v /\ x.v <= hi

\* The rules in the order of the claim, each with whether it fails on the
\* arguments and the message it gives.
ValidationRules(description, amount, terms) ==
    << [fails |-> TrimmedLen(description) < 10,
        msg |-> "Description must be at least 10 characters"],
       [fails |-> TrimmedLen(description) > 500,
        msg |-> "Description must be less than 500 characters"],
       [fails |-> ~(~amount.nan /\ amount.v > 0),
        msg |-> "Amount must be greater than 0"],
       [fails |-> ~(~amount.nan /\ amount.v >= 100),
        msg |-> "Minimum amount is ₹100"],
       [fails |-> ~(~amount.nan /\ amount.v <= 500000),
        msg |-> "Maximum amount is ₹5,00,000"],
       [fails |-> TrimmedLen(terms) < 20,
        msg |-> "Terms must be at least 20 characters"],
       [fails |-> TrimmedLen(terms) > 1000,
        msg |-> "Terms must be less than 1000 characters"] >>

\* C21: validate_deal_data accepts exactly when the trimmed description has
\* 10 to 500 characters, the amount is in [100, 500000] and the trimmed
\* terms have 20 to 1000 characters; every amount outside [100, 500000] is
\* rejected; a rejection carries the message of the first failing rule.
C21_ValidateDealData ==
    op.name = "validate_deal_data" =>
        LET rules == ValidationRules(op.description, op.amount, op.terms)
            inRange == /\ TrimmedLen(op.description) \in 10..500
                       /\ AmountWithin(op.amount, 100, 500000)
                       /\ TrimmedLen(op.terms) \in 20..1000
        IN  /\ op.ret[1] = inRange
            /\ ~AmountWithin(op.amount, 100, 500000) => op.ret[1] = FALSE
            /\ op.ret[1] = FALSE =>
                  \E k \in 1..Len(rules) :
                      /\ rules[k].fails
                      /\ \A j \in 1..(k - 1) : ~rules[j].fails
                      /\ op.ret[2] = rules[k].msg

\* ---------------------------------------------------------------- C22
\* C22: Deal.from_dict(d.to_dict()) is a Deal equal to d in every field: the
\* status is the same enum member and both timestamps are the same, present
\* or absent.
C22_DealRoundTrip ==
    op.name = "from_dict" =>
        /\ op.ret # ValueError
        /\ op.ret = op.self
        /\ op.ret.status \in DealStatusMembers
        /\ op.ret.status = op.self.status
        /\ op.ret.created_at = op.self.created_at
        /\ op.ret.updated_at = op.self.updated_at

\* A disputed deal created at time 0 and never given an updated_at has been
\* serialized and read back.
C22_Witness ==
    /\ op.name = "from_dict"
    /\ op.self.status.value = DISPUTED
    /\ op.self.created_at = Datetime(0)
    /\ op.self.updated_at = None
    /\ op.data.status = DISPUTED
    /\ op.data.updated_at = None
    /\ op.ret.created_at = Datetime(0)

\* ---------------------------------------------------------------- C27
\* C27: a user's failed_attempts never decreases, and unblock_user leaves it
\* as it is; so once it is 5 or more, every later log_failed_attempt call
\* for the user, blocked or unblocked at that moment, ends with the user in
\* the blocked set and with another AUTO_BLOCK line at the end of the log.
C27_UnblockKeepsCount ==
    [][\A u \in Users :
          /\ FailedCount(u)' >= FailedCount(u)
          /\ (u \in blocked /\ u \notin blocked')
                => failed_attempts' = failed_attempts
          /\ (failedCalls'[u] # failedCalls[u] /\ FailedCount(u) >= 5)
                => /\ u \in blocked'
                   /\ Len(audit') = Len(audit) + 2
                   /\ audit'[Len(audit')] =
                         LogEntry("AUTO_BLOCK", u, <<"Too many failed attempts">>)
                   /\ SubSeq(audit', 1, Len(audit)) = audit]_vars

\* A user is blocked after a 6th failed attempt and the log holds two
\* AUTO_BLOCK lines of that user, the last one at its end, while the other
\* user is not blocked.
C27_Witness ==
    \E u, v \in Users :
        /\ FailedCount(u) = 6
        /\ u \in blocked
        /\ v \notin blocked
        /\ audit[Len(audit)] = LogEntry("AUTO_BLOCK", u, <<"Too many failed attempts">>)
        /\ Cardinality({i \in 1..Len(audit) :
               audit[i] = LogEntry("AUTO_BLOCK", u, <<"Too many failed attempts">>)}) = 2

\* ---------------------------------------------------------------- C23
\* C23: the dict returned by get_deal_stats describes one state of the
\* deals table, whatever create_deal and update_deal_status calls run
\* between its queries: the deals counted as active, completed and disputed
\* are among the deals counted in total_deals, and total_value is the sum
\* of the amounts of as many deals as active_deals counts (so it is 0 when
\* active_deals is 0 and at least the least amount for each active deal).
C23_StatsSnapshot ==
    op.name = "get_deal_stats" =>
        /\ op.ret.active_deals + op.ret.completed_deals + op.ret.disputed_deals
              <= op.ret.total_deals
        /\ op.ret.active_deals = 0 => op.ret.total_value = 0
        /\ \A a \in Amounts :
              (\A b \in Amounts : a <= b) =>
                  op.ret.total_value >= a * op.ret.active_deals

\* ---------------------------------------------------------------- C25
\* C25: the rate_limits table never holds two records of one user, and the
\* last_action stored for a user never decreases (nor is the record
\* removed), however concurrent check_rate_limit calls interleave.
C25_OneRecordMonotone ==
    /\ [](\A u \in Users : Cardinality(RateRows(u)) <= 1)
    /\ [][\A u \in Users : \A r \in RateRows(u) :
             /\ RateRows(u)' # {}
             /\ \A q \in RateRows(u)' :
                   fromisoformat(q.last_action) >= fromisoformat(r.last_action)]_vars

\* ---------------------------------------------------------------- C24
\* The times at which the actions of u whose handler was executed entered
\* the wrapper.
PermittedEntries(u) == {a \in 0..MaxTime : handledLog[<<u, a>>] > 0}

\* C24: an action of a non-blocked user that enters the wrapper when every
\* permitted action of that user entered it at least RATE_LIMIT_SECONDS
\* earlier is not rejected (its handler is executed), however many of the
\* user's attempts were rejected since.
C24_BoundedResponse ==
    [][\A t \in Tasks :
          (/\ WrapperRejects(t)
           /\ tuser[t] \notin blocked
           /\ PermittedEntries(tuser[t]) # {}
           /\ \A a \in PermittedEntries(tuser[t]) :
                 wnow[t] - a >= RATE_LIMIT_SECONDS)
              => FALSE]_vars

\* ---------------------------------------------------------------- C28
\* C28: when the store raises during check_rate_limit, the call returns
\* True, so the wrapper executes the handler, and the stored last_action of
\* the user is what it was before the call.
C28_FailsOpen ==
    [][\A t \in Tasks :
          (Db_Raises(t) /\ tmode[t] = "wrapper")
              => /\ handledLog' = Bump(handledLog, tuser[t], wnow[t])
                 /\ rate_limits' = rate_limits]_vars

\* After a restart, a user's second action has reached the handler one
\* second after the first, inside the rate window: the cache holds only the
\* second action's time, and the store still holds the first action's
\* last_action, which the failing call did not advance.
C28_Witness ==
    \E u \in Users, a, b \in 0..MaxTime :
        /\ AllIdle
        /\ b = a + 1
        /\ b - a < RATE_LIMIT_SECONDS
        /\ handledLog[<<u, a>>] > 0
        /\ handledLog[<<u, b>>] > 0
        /\ cache = DictPut(EmptyDict, u, b)
        /\ SelectLastAction(u) = <<isoformat(a)>>

====
